---- MODULE Spec2Model ----
(***************************************************************************)
(* The explicit free list allocator of malloclab/mm.c: one contiguous heap *)
(* of 8-byte words obtained from mem_sbrk, blocks with boundary tags, a    *)
(* LIFO doubly linked free list threaded through the payloads, first fit   *)
(* placement with splitting, immediate coalescing.                         *)
(*                                                                         *)
(* Memory is a partial function from byte addresses (multiples of 8) to    *)
(* word values: its domain is the set of words that were ever written.  A  *)
(* word outside the domain is uninitialised; reading it yields a value the *)
(* operation draws nondeterministically (parameter u, a record: u.junk is  *)
(* the value read, u.trap says whether an access outside the region or a   *)
(* call into the C library with a foreign pointer kills the process).      *)
(* Words and addresses are WordBits wide; arithmetic wraps modulo 2^w.     *)
(***************************************************************************)
EXTENDS Integers, FiniteSets, Sequences, TLC

\* ---- program constants (mm.c:63-66) ----
WORD == 8
DWORD == 16
MIN_BLOCK_SIZE == 32
CHUNKSIZE == 4096
NULL == 0

\* ---- bounds of the model ----
\* width of size_t / unsigned long / pointers in bits
WordBits == 16
\* most allocations the caller holds at once
MaxLive == 2
\* most steps of the caller in one run (public calls and payload writes)
MaxCalls == 5

Modulus == 2 ^ WordBits
Add(a, b) == (a + b) % Modulus
Sub(a, b) == (a - b + Modulus) % Modulus

\* the value (void *)-1 that mem_sbrk returns on failure
SBRK_FAIL == Modulus - 1

\* first byte of the region the provider hands out (16-byte aligned, not null)
mem_start_brk == DWORD

\* what the caller stores in a payload
UserWord == 5
\* values a read of an uninitialised word may yield
JunkWords == {0, 1}

VARIABLES
    mem,            \* the heap words written so far: address -> word
    mem_brk,        \* current end of the region (memlib)
    mem_max_addr,   \* end of what the provider can hand out (memlib)
    heap_prologue,  \* mm.c:125
    flist_head,     \* mm.c:127
    fault,          \* "none", or how the process died: "segv", "assert", "libc", "hang"
    phase,          \* "new" before mm_init, "ready" after it succeeded, "failed" after it failed
    live,           \* pointers the caller holds: returned and not yet freed
    calls,          \* number of steps of the caller so far
    op,             \* the last public call: [name, ptr, size]
    ret             \* what it returned

vars == <<mem, mem_brk, mem_max_addr, heap_prologue, flist_head, fault, phase,
          live, calls, op, ret>>

\* ---- macros (mm.c:69-92) ----
MAX(x, y) == IF x > y THEN x ELSE y

\* (size) | (alloc): sizes are multiples of 16 wherever the code packs them,
\* the general case keeps an already set low bit
PACK(size, alloc) == IF size % 2 = 1 THEN size ELSE size + alloc

\* the word at address p; an unwritten word reads as u.junk
GET(m, p, u) == IF p \in DOMAIN m THEN m[p] ELSE u.junk

\* the memory with val stored at address p
SET(m, p, val) == (p :> val) @@ m

\* w & ~0x0F and w & 0x01 of a word w
SizeBits(w) == w - (w % 16)
AllocBit(w) == w % 2

HDRP(bp) == Sub(bp, WORD)
GET_SIZE(m, p, u) == SizeBits(GET(m, p, u))
GET_ALLOC(m, p, u) == AllocBit(GET(m, p, u))
\* FTRP with the footer taken for the last word before the next payload
FTRP_next_header(m, bp, u) == Sub(Add(bp, GET_SIZE(m, HDRP(bp), u)), WORD)

FTRP(m, bp, u) == Sub(Add(bp, GET_SIZE(m, HDRP(bp), u)), DWORD)
PREV_BLKP(m, bp, u) == Sub(bp, GET_SIZE(m, Sub(bp, DWORD), u))
NEXT_BLKP(m, bp, u) == Add(bp, GET_SIZE(m, HDRP(bp), u))
PREV_FREE(m, bp, u) == GET(m, bp, u)
NEXT_FREE(m, bp, u) == GET(m, Add(bp, WORD), u)

\* ALIGN is used by mm.c:192 and mm.c:256 and defined in no file of src/:
\* round up to the next multiple of 16, in size_t arithmetic
ALIGN(size) == SizeBits(Add(size, DWORD - 1))

\* ---- the region provider (memlib, not in src/) ----
\* mem_sbrk(incr): the old break, and the break moved up by incr; or failure
\* when the provider has no room left.  s is the allocator state record
\* [mem, head, brk, fault].
mem_sbrk(s, incr) ==
    IF s.brk + incr > mem_max_addr
    THEN [s |-> s, ret |-> SBRK_FAIL]
    ELSE [s |-> [s EXCEPT !.brk = s.brk + incr], ret |-> s.brk]

Fail(s, how) == [s EXCEPT !.fault = how]

\* an address outside the region the provider has handed out
Wild(s, a) == a < mem_start_brk \/ a >= s.brk

\* F applied to the value of e: a local variable after its assignment
Bind(e, F(_)) == CHOOSE y \in {F(x) : x \in {e}} : TRUE

\* SET(HDRP(bp), w); SET(FTRP(bp), w): the footer is found through the header
\* just written
SET_TAGS(m, bp, w, u) ==
    Bind(SET(m, HDRP(bp), w), LAMBDA m1 : SET(m1, FTRP(m1, bp, u), w))

\* ---- linked list functions (mm.c:447-472) ----
\* flist_remove without its last statement, the store to PREV_FREE(NEXT_FREE(bp))
flist_remove_keeps_prev(s, bp, u) ==
    IF s.fault # "none" THEN s
    ELSE IF GET_ALLOC(s.mem, HDRP(bp), u) # 0 THEN Fail(s, "assert")
    ELSE IF bp = s.head
         THEN [s EXCEPT !.head = NEXT_FREE(s.mem, bp, u)]
         ELSE [s EXCEPT !.mem = SET(@, Add(PREV_FREE(s.mem, bp, u), WORD),
                                    NEXT_FREE(s.mem, bp, u))]

flist_remove(s, bp, u) ==
    IF s.fault # "none" THEN s
    ELSE IF GET_ALLOC(s.mem, HDRP(bp), u) # 0 THEN Fail(s, "assert")
    ELSE Bind(IF bp = s.head
              THEN [s EXCEPT !.head = NEXT_FREE(s.mem, bp, u)]
              ELSE [s EXCEPT !.mem = SET(@, Add(PREV_FREE(s.mem, bp, u), WORD),
                                         NEXT_FREE(s.mem, bp, u))],
              LAMBDA s1 : [s1 EXCEPT !.mem = SET(@, NEXT_FREE(s1.mem, bp, u),
                                                 PREV_FREE(s1.mem, bp, u))])

\* flist_add without its last statement, flist_head = bp
flist_add_keeps_head(s, bp, u) ==
    IF s.fault # "none" THEN s
    ELSE IF GET_ALLOC(s.mem, HDRP(bp), u) # 0 THEN Fail(s, "assert")
    ELSE [s EXCEPT !.mem = SET(SET(@, Add(bp, WORD), s.head), s.head, bp)]

\* flist_add that puts bp behind the head of a list that is not empty
flist_add_behind_head(s, bp, u) ==
    IF s.fault # "none" THEN s
    ELSE IF GET_ALLOC(s.mem, HDRP(bp), u) # 0 THEN Fail(s, "assert")
    ELSE IF GET_ALLOC(s.mem, HDRP(s.head), u) # 0
    THEN [s EXCEPT !.mem = SET(SET(@, Add(bp, WORD), s.head), s.head, bp),
                   !.head = bp]
    ELSE Bind(NEXT_FREE(s.mem, s.head, u), LAMBDA next :
            [s EXCEPT !.mem = SET(SET(SET(SET(@, Add(bp, WORD), next), bp, s.head),
                                      next, bp),
                                  Add(s.head, WORD), bp)])

flist_add(s, bp, u) ==
    IF s.fault # "none" THEN s
    ELSE IF GET_ALLOC(s.mem, HDRP(bp), u) # 0 THEN Fail(s, "assert")
    ELSE [s EXCEPT !.mem = SET(SET(@, Add(bp, WORD), s.head), s.head, bp),
                   !.head = bp]

\* ---- coalesce (mm.c:397-438): returns [s, bp] ----
\* The last three statements (mm.c:433-437) on c = [s, bp, size], the state,
\* the block pointer and the size after the case analysis.
\* the tail of coalesce that adds the block to the free list twice
coalesce_finish_adds_twice(c, u) ==
    IF c.s.fault # "none" THEN [s |-> c.s, bp |-> c.bp]
    ELSE Bind([c.s EXCEPT !.mem = SET_TAGS(@, c.bp, PACK(c.size, 0), u)],
              LAMBDA s3 : [s |-> flist_add(flist_add(s3, c.bp, u), c.bp, u),
                           bp |-> c.bp])

\* the tail of coalesce without the two stores of the new size (mm.c:433-434)
coalesce_finish_keeps_size(c, u) ==
    IF c.s.fault # "none" THEN [s |-> c.s, bp |-> c.bp]
    ELSE [s |-> flist_add(c.s, c.bp, u), bp |-> c.bp]

coalesce_finish(c, u) ==
    IF c.s.fault # "none" THEN [s |-> c.s, bp |-> c.bp]
    ELSE Bind([c.s EXCEPT !.mem = SET_TAGS(@, c.bp, PACK(c.size, 0), u)],
              LAMBDA s3 : [s |-> flist_add(s3, c.bp, u), bp |-> c.bp])

coalesce(s, bp, u) ==
    IF s.fault # "none" THEN [s |-> s, bp |-> bp]
    ELSE IF GET_ALLOC(s.mem, HDRP(bp), u) # 0 THEN [s |-> Fail(s, "assert"), bp |-> bp]
    ELSE
    LET m == s.mem
        prev_alloc == GET_ALLOC(m, HDRP(PREV_BLKP(m, bp, u)), u)
        next_alloc == GET_ALLOC(m, HDRP(NEXT_BLKP(m, bp, u)), u)
        size == GET_SIZE(m, HDRP(bp), u)
    IN CASE prev_alloc # 0 /\ next_alloc = 0 ->
              Bind([size |-> Add(size, GET_SIZE(m, HDRP(NEXT_BLKP(m, bp, u)), u)),
                    s |-> flist_remove(s, NEXT_BLKP(m, bp, u), u),
                    bp |-> bp],
                   LAMBDA c : coalesce_finish(c, u))
         [] prev_alloc = 0 /\ next_alloc # 0 ->
              Bind(flist_remove(s, PREV_BLKP(m, bp, u), u), LAMBDA s1 :
              Bind([size |-> Add(size, GET_SIZE(m, HDRP(PREV_BLKP(m, bp, u)), u)),
                    s |-> s1,
                    bp |-> PREV_BLKP(s1.mem, bp, u)],
                   LAMBDA c : coalesce_finish(c, u)))
         [] prev_alloc = 0 /\ next_alloc = 0 ->
              Bind(flist_remove(s, PREV_BLKP(m, bp, u), u), LAMBDA s1 :
              Bind(flist_remove(s1, NEXT_BLKP(s1.mem, bp, u), u), LAMBDA s2 :
              Bind([size |-> Add(size, Add(GET_SIZE(m, HDRP(PREV_BLKP(m, bp, u)), u),
                                           GET_SIZE(m, HDRP(NEXT_BLKP(m, bp, u)), u))),
                    s |-> s2,
                    bp |-> PREV_BLKP(s2.mem, bp, u)],
                   LAMBDA c : coalesce_finish(c, u))))
         [] OTHER ->
              Bind([size |-> size, s |-> s, bp |-> bp],
                   LAMBDA c : coalesce_finish(c, u))

\* ---- find_fit (mm.c:321-327) ----
\* The loop, unrolled by recursion; n counts the iterations left before the
\* walk has visited more nodes than there are words, i.e. runs in a cycle.
\* the loop with > for >= in the size test of mm.c:324
RECURSIVE find_fit_from_strict(_, _, _, _, _)
find_fit_from_strict(s, bp, size, u, n) ==
    IF GET_ALLOC(s.mem, HDRP(bp), u) # 0 THEN [bp |-> NULL, hang |-> FALSE]
    ELSE IF GET_SIZE(s.mem, HDRP(bp), u) > size THEN [bp |-> bp, hang |-> FALSE]
    ELSE IF n = 0 THEN [bp |-> NULL, hang |-> TRUE]
    ELSE Bind(NEXT_FREE(s.mem, bp, u),
              LAMBDA next : find_fit_from_strict(s, next, size, u, n - 1))

\* the loop that goes on after a hit and returns the last block that fits
RECURSIVE find_fit_from_last(_, _, _, _, _)
find_fit_from_last(s, bp, size, u, n) ==
    IF GET_ALLOC(s.mem, HDRP(bp), u) # 0 THEN [bp |-> NULL, hang |-> FALSE]
    ELSE IF n = 0 THEN [bp |-> NULL, hang |-> TRUE]
    ELSE Bind(find_fit_from_last(s, NEXT_FREE(s.mem, bp, u), size, u, n - 1),
              LAMBDA rest :
                  IF rest.hang \/ rest.bp # NULL THEN rest
                  ELSE IF GET_SIZE(s.mem, HDRP(bp), u) >= size
                  THEN [bp |-> bp, hang |-> FALSE]
                  ELSE rest)

RECURSIVE find_fit_from(_, _, _, _, _)
find_fit_from(s, bp, size, u, n) ==
    IF GET_ALLOC(s.mem, HDRP(bp), u) # 0 THEN [bp |-> NULL, hang |-> FALSE]
    ELSE IF GET_SIZE(s.mem, HDRP(bp), u) >= size THEN [bp |-> bp, hang |-> FALSE]
    ELSE IF n = 0 THEN [bp |-> NULL, hang |-> TRUE]
    ELSE Bind(NEXT_FREE(s.mem, bp, u),
              LAMBDA next : find_fit_from(s, next, size, u, n - 1))

find_fit(s, size, u) == find_fit_from(s, s.head, size, u, Cardinality(DOMAIN s.mem))

\* ---- extend_heap (mm.c:337-350): returns [s, bp] ----
\* extend_heap without the statement that recreates the epilogue
extend_heap_no_epilogue(s, size, u) ==
    Bind(mem_sbrk(s, size), LAMBDA r :
        IF r.ret = SBRK_FAIL THEN [s |-> s, bp |-> NULL]
        ELSE Bind([r.s EXCEPT !.mem = SET_TAGS(@, r.ret, PACK(size, 0), u)],
                  LAMBDA s1 : coalesce(s1, r.ret, u)))

\* extend_heap that stores the new block's header over the old epilogue before
\* it asks the provider
extend_heap_tags_before_sbrk(s, size, u) ==
    Bind([s EXCEPT !.mem = SET(@, HDRP(s.brk), PACK(size, 0))], LAMBDA s0 :
    Bind(mem_sbrk(s0, size), LAMBDA r :
        IF r.ret = SBRK_FAIL THEN [s |-> s0, bp |-> NULL]
        ELSE Bind(SET_TAGS(r.s.mem, r.ret, PACK(size, 0), u), LAMBDA m2 :
             Bind([r.s EXCEPT !.mem = SET(m2, HDRP(NEXT_BLKP(m2, r.ret, u)), PACK(0, 1))],
                  LAMBDA s1 : coalesce(s1, r.ret, u)))))

\* extend_heap that writes the new epilogue with alloc bit 0
extend_heap_epilogue_free(s, size, u) ==
    Bind(mem_sbrk(s, size), LAMBDA r :
        IF r.ret = SBRK_FAIL THEN [s |-> s, bp |-> NULL]
        ELSE Bind(SET_TAGS(r.s.mem, r.ret, PACK(size, 0), u), LAMBDA m2 :
             Bind([r.s EXCEPT !.mem = SET(m2, HDRP(NEXT_BLKP(m2, r.ret, u)), PACK(0, 0))],
                  LAMBDA s1 : coalesce(s1, r.ret, u))))

extend_heap(s, size, u) ==
    Bind(mem_sbrk(s, size), LAMBDA r :
        IF r.ret = SBRK_FAIL THEN [s |-> s, bp |-> NULL]
        ELSE Bind(SET_TAGS(r.s.mem, r.ret, PACK(size, 0), u), LAMBDA m2 :
             Bind([r.s EXCEPT !.mem = SET(m2, HDRP(NEXT_BLKP(m2, r.ret, u)), PACK(0, 1))],
                  LAMBDA s1 : coalesce(s1, r.ret, u))))

\* ---- allocate (mm.c:359-381): returns the state ----
\* the split that gives the residue the size of the whole block
allocate_split_full_residue(s1, bp, size, block_size, u) ==
    Bind(SET_TAGS(s1.mem, bp, PACK(size, 1), u), LAMBDA a2 :
    Bind([s1 EXCEPT !.mem = SET_TAGS(a2, NEXT_BLKP(a2, bp, u),
                                     PACK(block_size, 0), u)],
         LAMBDA s2 : coalesce(s2, NEXT_BLKP(s2.mem, bp, u), u).s))

\* the split (mm.c:368-374) of the block bp of block_size bytes in state s1
allocate_split(s1, bp, size, block_size, u) ==
    Bind(SET_TAGS(s1.mem, bp, PACK(size, 1), u), LAMBDA a2 :
    Bind([s1 EXCEPT !.mem = SET_TAGS(a2, NEXT_BLKP(a2, bp, u),
                                     PACK(Sub(block_size, size), 0), u)],
         LAMBDA s2 : coalesce(s2, NEXT_BLKP(s2.mem, bp, u), u).s))

\* allocate that packs the whole block with alloc bit 0 when it does not split
allocate_whole_block_free(s, bp, size, u) ==
    IF s.fault # "none" THEN s
    ELSE IF GET_ALLOC(s.mem, HDRP(bp), u) # 0 THEN Fail(s, "assert")
    ELSE Bind(flist_remove(s, bp, u), LAMBDA s1 :
            IF s1.fault # "none" THEN s1
            ELSE IF Sub(GET_SIZE(s.mem, HDRP(bp), u), size) >= MIN_BLOCK_SIZE
            THEN allocate_split(s1, bp, size, GET_SIZE(s.mem, HDRP(bp), u), u)
            ELSE [s1 EXCEPT !.mem = SET_TAGS(@, bp, PACK(GET_SIZE(s.mem, HDRP(bp), u), 0), u)])

\* allocate that splits whenever the leftover holds a header and a footer
allocate_splits_any_residue(s, bp, size, u) ==
    IF s.fault # "none" THEN s
    ELSE IF GET_ALLOC(s.mem, HDRP(bp), u) # 0 THEN Fail(s, "assert")
    ELSE Bind(flist_remove(s, bp, u), LAMBDA s1 :
            IF s1.fault # "none" THEN s1
            ELSE IF Sub(GET_SIZE(s.mem, HDRP(bp), u), size) >= DWORD
            THEN allocate_split(s1, bp, size, GET_SIZE(s.mem, HDRP(bp), u), u)
            ELSE [s1 EXCEPT !.mem = SET_TAGS(@, bp, PACK(GET_SIZE(s.mem, HDRP(bp), u), 1), u)])

\* allocate that splits only when the leftover is more than a minimum block
allocate_strict_split(s, bp, size, u) ==
    IF s.fault # "none" THEN s
    ELSE IF GET_ALLOC(s.mem, HDRP(bp), u) # 0 THEN Fail(s, "assert")
    ELSE Bind(flist_remove(s, bp, u), LAMBDA s1 :
            IF s1.fault # "none" THEN s1
            ELSE IF Sub(GET_SIZE(s.mem, HDRP(bp), u), size) > MIN_BLOCK_SIZE
            THEN allocate_split(s1, bp, size, GET_SIZE(s.mem, HDRP(bp), u), u)
            ELSE [s1 EXCEPT !.mem = SET_TAGS(@, bp, PACK(GET_SIZE(s.mem, HDRP(bp), u), 1), u)])

allocate(s, bp, size, u) ==
    IF s.fault # "none" THEN s
    ELSE IF GET_ALLOC(s.mem, HDRP(bp), u) # 0 THEN Fail(s, "assert")
    ELSE Bind(flist_remove(s, bp, u), LAMBDA s1 :
            IF s1.fault # "none" THEN s1
            ELSE IF Sub(GET_SIZE(s.mem, HDRP(bp), u), size) >= MIN_BLOCK_SIZE
            THEN allocate_split(s1, bp, size, GET_SIZE(s.mem, HDRP(bp), u), u)
            ELSE [s1 EXCEPT !.mem = SET_TAGS(@, bp, PACK(GET_SIZE(s.mem, HDRP(bp), u), 1), u)])

\* ---- mm_init (mm.c:151-171): returns [s, prologue, ret] ----
\* mm_init without the two stores of mm.c:166-167
mm_init_no_links(s, u) ==
    Bind(mem_sbrk(s, 3 * DWORD), LAMBDA r :
        IF r.ret = SBRK_FAIL THEN [s |-> s, prologue |-> NULL, ret |-> -1]
        ELSE
        LET heap_start == r.ret
            prologue == Add(heap_start, DWORD)
        IN Bind(SET_TAGS(SET(r.s.mem, heap_start, 0), prologue,
                         PACK(MIN_BLOCK_SIZE, 1), u), LAMBDA m3 :
                [s |-> [r.s EXCEPT !.mem = SET(m3, HDRP(NEXT_BLKP(m3, prologue, u)),
                                               PACK(0, 1)),
                                   !.head = prologue],
                 prologue |-> prologue,
                 ret |-> 0]))

mm_init(s, u) ==
    Bind(mem_sbrk(s, 3 * DWORD), LAMBDA r :
        IF r.ret = SBRK_FAIL THEN [s |-> s, prologue |-> NULL, ret |-> -1]
        ELSE
        LET heap_start == r.ret
            prologue == Add(heap_start, DWORD)
        IN Bind(SET_TAGS(SET(r.s.mem, heap_start, 0), prologue,
                         PACK(MIN_BLOCK_SIZE, 1), u), LAMBDA m3 :
           Bind(SET(SET(m3, prologue, NULL), Add(prologue, WORD), NULL), LAMBDA m5 :
                [s |-> [r.s EXCEPT !.mem = SET(m5, HDRP(NEXT_BLKP(m5, prologue, u)),
                                               PACK(0, 1)),
                                   !.head = prologue],
                 prologue |-> prologue,
                 ret |-> 0])))

\* ---- mm_malloc (mm.c:187-205): returns [s, ret] ----
\* mm_malloc from the adjusted size on (mm.c:193-204)
\* mm_malloc that extends the heap by the adjusted size, however small
mm_malloc_place_grows_by_request(s, adj_size, u) ==
    Bind(find_fit(s, adj_size, u), LAMBDA f :
        IF f.hang THEN [s |-> Fail(s, "hang"), ret |-> NULL]
        ELSE IF f.bp # NULL THEN [s |-> allocate(s, f.bp, adj_size, u), ret |-> f.bp]
        ELSE Bind(extend_heap(s, adj_size, u), LAMBDA e :
                IF e.bp = NULL THEN [s |-> e.s, ret |-> NULL]
                ELSE [s |-> allocate(e.s, e.bp, adj_size, u), ret |-> e.bp]))

mm_malloc_place(s, adj_size, u) ==
    Bind(find_fit(s, adj_size, u), LAMBDA f :
        IF f.hang THEN [s |-> Fail(s, "hang"), ret |-> NULL]
        ELSE IF f.bp # NULL THEN [s |-> allocate(s, f.bp, adj_size, u), ret |-> f.bp]
        ELSE Bind(extend_heap(s, MAX(CHUNKSIZE, adj_size), u), LAMBDA e :
                IF e.bp = NULL THEN [s |-> e.s, ret |-> NULL]
                ELSE [s |-> allocate(e.s, e.bp, adj_size, u), ret |-> e.bp]))

\* mm_malloc whose adjusted size is not rounded up to the alignment
mm_malloc_unaligned(s, size, u) ==
    IF size <= 0 THEN [s |-> s, ret |-> NULL]
    ELSE mm_malloc_place(s, MAX(MIN_BLOCK_SIZE, Add(size, DWORD)), u)

mm_malloc(s, size, u) ==
    IF size <= 0 THEN [s |-> s, ret |-> NULL]
    ELSE mm_malloc_place(s, MAX(MIN_BLOCK_SIZE, ALIGN(Add(size, DWORD))), u)

\* ---- mm_free (mm.c:219-227): returns the state ----
\* The header of ptr is read before anything else.  When it lies outside the
\* region (ptr is null), the read either kills the process or yields some
\* word; a store outside the region kills it.
\* mm_free that puts the block on the free list without coalescing
mm_free_no_coalesce(s, ptr, u) ==
    IF s.fault # "none" THEN s
    ELSE IF Wild(s, HDRP(ptr)) /\ u.trap THEN Fail(s, "segv")
    ELSE IF GET_ALLOC(s.mem, HDRP(ptr), u) = 0
            \/ GET(s.mem, HDRP(ptr), u) # GET(s.mem, FTRP(s.mem, ptr, u), u)
    THEN s
    ELSE IF Wild(s, HDRP(ptr)) THEN Fail(s, "segv")
    ELSE Bind(SET(s.mem, HDRP(ptr), PACK(GET_SIZE(s.mem, HDRP(ptr), u), 0)), LAMBDA m1 :
         Bind([s EXCEPT !.mem = SET(m1, FTRP(m1, ptr, u),
                                    PACK(GET_SIZE(m1, HDRP(ptr), u), 0))],
              LAMBDA s1 : flist_add(s1, ptr, u)))

\* mm_free without the validation of mm.c:221
mm_free_unchecked(s, ptr, u) ==
    IF s.fault # "none" THEN s
    ELSE IF Wild(s, HDRP(ptr)) THEN Fail(s, "segv")
    ELSE Bind(SET(s.mem, HDRP(ptr), PACK(GET_SIZE(s.mem, HDRP(ptr), u), 0)), LAMBDA m1 :
         Bind([s EXCEPT !.mem = SET(m1, FTRP(m1, ptr, u),
                                    PACK(GET_SIZE(m1, HDRP(ptr), u), 0))],
              LAMBDA s1 : coalesce(s1, ptr, u).s))

\* mm_free whose validation returns for blocks that report as allocated
mm_free_inverted_check(s, ptr, u) ==
    IF s.fault # "none" THEN s
    ELSE IF Wild(s, HDRP(ptr)) /\ u.trap THEN Fail(s, "segv")
    ELSE IF GET_ALLOC(s.mem, HDRP(ptr), u) # 0
            \/ GET(s.mem, HDRP(ptr), u) # GET(s.mem, FTRP(s.mem, ptr, u), u)
    THEN s
    ELSE IF Wild(s, HDRP(ptr)) THEN Fail(s, "segv")
    ELSE Bind(SET(s.mem, HDRP(ptr), PACK(GET_SIZE(s.mem, HDRP(ptr), u), 0)), LAMBDA m1 :
         Bind([s EXCEPT !.mem = SET(m1, FTRP(m1, ptr, u),
                                    PACK(GET_SIZE(m1, HDRP(ptr), u), 0))],
              LAMBDA s1 : coalesce(s1, ptr, u).s))

mm_free(s, ptr, u) ==
    IF s.fault # "none" THEN s
    ELSE IF Wild(s, HDRP(ptr)) /\ u.trap THEN Fail(s, "segv")
    ELSE IF GET_ALLOC(s.mem, HDRP(ptr), u) = 0
            \/ GET(s.mem, HDRP(ptr), u) # GET(s.mem, FTRP(s.mem, ptr, u), u)
    THEN s
    ELSE IF Wild(s, HDRP(ptr)) THEN Fail(s, "segv")
    ELSE Bind(SET(s.mem, HDRP(ptr), PACK(GET_SIZE(s.mem, HDRP(ptr), u), 0)), LAMBDA m1 :
         Bind([s EXCEPT !.mem = SET(m1, FTRP(m1, ptr, u),
                                    PACK(GET_SIZE(m1, HDRP(ptr), u), 0))],
              LAMBDA s1 : coalesce(s1, ptr, u).s))

\* memcpy with source and destination exchanged
memcpy_swapped(m, dst, src, n) ==
    LET InSrc(a) == src <= a /\ a < src + n
        from == {a \in DOMAIN m : dst <= a /\ a < dst + n}
        dom == {a \in DOMAIN m : ~InSrc(a)} \cup {Add(Sub(a, dst), src) : a \in from}
    IN [a \in dom |-> IF InSrc(a) THEN m[Add(Sub(a, src), dst)] ELSE m[a]]

\* ---- memcpy(dst, src, n) of mm.c:296 ----
\* Copies the n bytes word by word; a destination word whose source word was
\* never written becomes uninitialised itself.
memcpy(m, dst, src, n) ==
    LET InDst(a) == dst <= a /\ a < dst + n
        from == {a \in DOMAIN m : src <= a /\ a < src + n}
        dom == {a \in DOMAIN m : ~InDst(a)} \cup {Add(Sub(a, src), dst) : a \in from}
    IN [a \in dom |-> IF InDst(a) THEN m[Add(Sub(a, dst), src)] ELSE m[a]]

\* ---- free(ptr) of mm.c:253: the C library's free, not mm_free ----
\* ptr was not obtained from the C library's malloc, so the call has undefined
\* behaviour: the library aborts the process, or returns.  In neither case
\* does it touch the allocator's own words (header, footer, free list).
libc_free(s, ptr, u) == IF u.trap THEN Fail(s, "libc") ELSE s

\* ---- mm_realloc (mm.c:246-301): returns [s, ret] ----
\* in-place expansion that leaves next_blk in the free list
mm_realloc_expand_keeps_node(s, ptr, adj_size, block_size, next_blk, u) ==
    LET grown == Add(block_size, GET_SIZE(s.mem, HDRP(next_blk), u))
    IN IF Sub(grown, adj_size) >= MIN_BLOCK_SIZE
       THEN [s |-> allocate_split(s, ptr, adj_size, grown, u), ret |-> ptr]
       ELSE [s |-> [s EXCEPT !.mem = SET_TAGS(@, ptr, PACK(grown, 1), u)],
             ret |-> ptr]

\* in-place expansion into the free block next_blk (mm.c:266-284)
mm_realloc_expand(s, ptr, adj_size, block_size, next_blk, u) ==
    Bind(flist_remove(s, next_blk, u), LAMBDA s1 :
        IF s1.fault # "none" THEN [s |-> s1, ret |-> ptr]
        ELSE
        LET grown == Add(block_size, GET_SIZE(s1.mem, HDRP(next_blk), u))
        IN IF Sub(grown, adj_size) >= MIN_BLOCK_SIZE
           THEN [s |-> allocate_split(s1, ptr, adj_size, grown, u), ret |-> ptr]
           ELSE [s |-> [s1 EXCEPT !.mem = SET_TAGS(@, ptr, PACK(grown, 1), u)],
                 ret |-> ptr])

\* relocation that frees the old block before it asks for the new one
mm_realloc_move_frees_first(s, old_ptr, size, block_size, u) ==
    Bind(mm_free(s, old_ptr, u), LAMBDA freed :
    Bind(mm_malloc(freed, size, u), LAMBDA r :
        IF r.ret = NULL \/ r.s.fault # "none" THEN r
        ELSE Bind(r.s.mem, LAMBDA m :
             [s |-> [r.s EXCEPT !.mem = memcpy(m, r.ret, old_ptr, Sub(block_size, DWORD))],
              ret |-> r.ret])))

\* relocation (mm.c:287-298)
mm_realloc_move(s, old_ptr, size, block_size, u) ==
    Bind(mm_malloc(s, size, u), LAMBDA r :
        IF r.ret = NULL \/ r.s.fault # "none" THEN r
        ELSE Bind(r.s.mem, LAMBDA m :
             Bind([r.s EXCEPT !.mem = memcpy(m, r.ret, old_ptr, Sub(block_size, DWORD))],
                  LAMBDA copied : [s |-> mm_free(copied, old_ptr, u), ret |-> r.ret])))

\* mm_realloc with < for <= in the test of mm.c:259
mm_realloc_strict_fit(s, ptr, size, u) ==
    IF ptr = NULL THEN mm_malloc(s, size, u)
    ELSE IF GET(s.mem, HDRP(ptr), u) # GET(s.mem, FTRP(s.mem, ptr, u), u)
    THEN [s |-> s, ret |-> NULL]
    ELSE IF size <= 0 THEN [s |-> libc_free(s, ptr, u), ret |-> NULL]
    ELSE
    LET adj_size == MAX(MIN_BLOCK_SIZE, ALIGN(Add(size, DWORD)))
        block_size == GET_SIZE(s.mem, HDRP(ptr), u)
        next_blk == NEXT_BLKP(s.mem, ptr, u)
    IN IF adj_size < block_size THEN [s |-> s, ret |-> ptr]
       ELSE IF GET_ALLOC(s.mem, HDRP(next_blk), u) = 0
               /\ adj_size <= Add(block_size, GET_SIZE(s.mem, HDRP(next_blk), u))
       THEN mm_realloc_expand(s, ptr, adj_size, block_size, next_blk, u)
       ELSE mm_realloc_move(s, ptr, size, block_size, u)

\* mm_realloc that relocates whenever the block is too small, free neighbour
\* or not
mm_realloc_never_expands(s, ptr, size, u) ==
    IF ptr = NULL THEN mm_malloc(s, size, u)
    ELSE IF GET(s.mem, HDRP(ptr), u) # GET(s.mem, FTRP(s.mem, ptr, u), u)
    THEN [s |-> s, ret |-> NULL]
    ELSE IF size <= 0 THEN [s |-> libc_free(s, ptr, u), ret |-> NULL]
    ELSE
    LET adj_size == MAX(MIN_BLOCK_SIZE, ALIGN(Add(size, DWORD)))
        block_size == GET_SIZE(s.mem, HDRP(ptr), u)
    IN IF adj_size <= block_size THEN [s |-> s, ret |-> ptr]
       ELSE mm_realloc_move(s, ptr, size, block_size, u)

\* mm_realloc that splits a free residue off the block when the block is
\* larger than the adjusted size by a whole block
mm_realloc_splits_on_shrink(s, ptr, size, u) ==
    IF ptr = NULL THEN mm_malloc(s, size, u)
    ELSE IF GET(s.mem, HDRP(ptr), u) # GET(s.mem, FTRP(s.mem, ptr, u), u)
    THEN [s |-> s, ret |-> NULL]
    ELSE IF size <= 0 THEN [s |-> libc_free(s, ptr, u), ret |-> NULL]
    ELSE
    LET adj_size == MAX(MIN_BLOCK_SIZE, ALIGN(Add(size, DWORD)))
        block_size == GET_SIZE(s.mem, HDRP(ptr), u)
        next_blk == NEXT_BLKP(s.mem, ptr, u)
    IN IF adj_size <= block_size
       THEN (IF Sub(block_size, adj_size) >= MIN_BLOCK_SIZE
             THEN [s |-> allocate_split(s, ptr, adj_size, block_size, u), ret |-> ptr]
             ELSE [s |-> s, ret |-> ptr])
       ELSE IF GET_ALLOC(s.mem, HDRP(next_blk), u) = 0
               /\ adj_size <= Add(block_size, GET_SIZE(s.mem, HDRP(next_blk), u))
       THEN mm_realloc_expand(s, ptr, adj_size, block_size, next_blk, u)
       ELSE mm_realloc_move(s, ptr, size, block_size, u)

mm_realloc(s, ptr, size, u) ==
    IF ptr = NULL THEN mm_malloc(s, size, u)
    ELSE IF GET(s.mem, HDRP(ptr), u) # GET(s.mem, FTRP(s.mem, ptr, u), u)
    THEN [s |-> s, ret |-> NULL]
    ELSE IF size <= 0 THEN [s |-> libc_free(s, ptr, u), ret |-> NULL]
    ELSE
    LET adj_size == MAX(MIN_BLOCK_SIZE, ALIGN(Add(size, DWORD)))
        block_size == GET_SIZE(s.mem, HDRP(ptr), u)
        next_blk == NEXT_BLKP(s.mem, ptr, u)
    IN IF adj_size <= block_size THEN [s |-> s, ret |-> ptr]
       ELSE IF GET_ALLOC(s.mem, HDRP(next_blk), u) = 0
               /\ adj_size <= Add(block_size, GET_SIZE(s.mem, HDRP(next_blk), u))
       THEN mm_realloc_expand(s, ptr, adj_size, block_size, next_blk, u)
       ELSE mm_realloc_move(s, ptr, size, block_size, u)

\* ---- the caller ----
\* sizes passed to mm_malloc: 0, the minimum block, a block of 64, one that
\* takes a whole fresh chunk without a split (4080 of 4096), one above
\* CHUNKSIZE, and one within 16 of the largest size_t
MallocSizes == {0, DWORD, 40, CHUNKSIZE - 2 * DWORD, CHUNKSIZE + 904, Modulus - WORD}
\* sizes passed to mm_realloc
ReallocSizes == {0, DWORD, 40, 100, CHUNKSIZE + 904}
\* what the provider can hand out in all: too little for mm_init, just enough
\* for mm_init, one chunk, and a chunk plus a larger extension
ProviderRoom == {2 * DWORD, 3 * DWORD, 3 * DWORD + CHUNKSIZE,
                 3 * DWORD + 2 * CHUNKSIZE + 928}

\* draws of the nondeterminism of one call
Reads == [junk : JunkWords, trap : {TRUE}]
Draws == [junk : JunkWords, trap : BOOLEAN]

State == [mem |-> mem, head |-> flist_head, brk |-> mem_brk, fault |-> fault]

\* the variables of the allocator and the provider take the values of s
Becomes(s) ==
    /\ mem' = s.mem
    /\ flist_head' = s.head
    /\ mem_brk' = s.brk
    /\ fault' = s.fault

Call(name, ptr, size) == [name |-> name, ptr |-> ptr, size |-> size]

Init ==
    /\ mem = <<>>
    /\ mem_brk = mem_start_brk
    /\ mem_max_addr \in {mem_start_brk + room : room \in ProviderRoom}
    /\ heap_prologue = NULL
    /\ flist_head = NULL
    /\ fault = "none"
    /\ phase = "new"
    /\ live = {}
    /\ calls = 0
    /\ op = Call("none", NULL, 0)
    /\ ret = NULL

Ready == phase = "ready" /\ fault = "none" /\ calls < MaxCalls

MmInit ==
    /\ phase = "new"
    /\ calls < MaxCalls
    /\ \E u \in Reads, s0 \in {State} :
         \E r \in {mm_init(s0, u)} :
            /\ Becomes(r.s)
            /\ heap_prologue' = r.prologue
            /\ ret' = r.ret
            /\ phase' = IF r.ret = 0 THEN "ready" ELSE "failed"
    /\ op' = Call("init", NULL, 0)
    /\ calls' = calls + 1
    /\ UNCHANGED <<mem_max_addr, live>>

Malloc(size) ==
    /\ Ready
    /\ Cardinality(live) < MaxLive
    /\ \E u \in Reads, s0 \in {State} :
         \E r \in {mm_malloc(s0, size, u)} :
            /\ Becomes(r.s)
            /\ ret' = r.ret
            /\ live' = IF r.ret # NULL THEN live \cup {r.ret} ELSE live
    /\ op' = Call("malloc", NULL, size)
    /\ calls' = calls + 1
    /\ UNCHANGED <<mem_max_addr, heap_prologue, phase>>

Free(ptr) ==
    /\ Ready
    /\ ptr \in live
    /\ \E u \in Reads, s0 \in {State} : \E s \in {mm_free(s0, ptr, u)} : Becomes(s)
    /\ live' = live \ {ptr}
    /\ op' = Call("free", ptr, 0)
    /\ ret' = NULL
    /\ calls' = calls + 1
    /\ UNCHANGED <<mem_max_addr, heap_prologue, phase>>

FreeNull ==
    /\ Ready
    /\ \E u \in Draws, s0 \in {State} : \E s \in {mm_free(s0, NULL, u)} : Becomes(s)
    /\ op' = Call("free", NULL, 0)
    /\ ret' = NULL
    /\ calls' = calls + 1
    /\ UNCHANGED <<mem_max_addr, heap_prologue, phase, live>>

Realloc(ptr, size) ==
    /\ Ready
    /\ ptr \in live
    /\ size > 0
    /\ \E u \in Reads, s0 \in {State} :
         \E r \in {mm_realloc(s0, ptr, size, u)} :
            /\ Becomes(r.s)
            /\ ret' = r.ret
            /\ live' = IF r.ret # NULL THEN (live \ {ptr}) \cup {r.ret} ELSE live
    /\ op' = Call("realloc", ptr, size)
    /\ calls' = calls + 1
    /\ UNCHANGED <<mem_max_addr, heap_prologue, phase>>

ReallocZero(ptr) ==
    /\ Ready
    /\ ptr \in live
    /\ \E u \in Draws, s0 \in {State} :
         \E r \in {mm_realloc(s0, ptr, 0, u)} :
            /\ Becomes(r.s)
            /\ ret' = r.ret
    /\ live' = live \ {ptr}
    /\ calls' = calls + 1
    /\ op' = Call("realloc", ptr, 0)
    /\ UNCHANGED <<mem_max_addr, heap_prologue, phase>>

ReallocNull(size) ==
    /\ Ready
    /\ Cardinality(live) < MaxLive
    /\ \E u \in Reads, s0 \in {State} :
         \E r \in {mm_realloc(s0, NULL, size, u)} :
            /\ Becomes(r.s)
            /\ ret' = r.ret
            /\ live' = IF r.ret # NULL THEN live \cup {r.ret} ELSE live
    /\ op' = Call("realloc", NULL, size)
    /\ calls' = calls + 1
    /\ UNCHANGED <<mem_max_addr, heap_prologue, phase>>

\* the caller stores into the first two words of a payload it holds
UserWrite(ptr) ==
    /\ Ready
    /\ ptr \in live
    /\ mem' = SET(SET(mem, ptr, UserWord), Add(ptr, WORD), UserWord)
    /\ calls' = calls + 1
    /\ op' = Call("write", ptr, 0)
    /\ ret' = NULL
    /\ UNCHANGED <<mem_brk, mem_max_addr, heap_prologue, flist_head, fault, phase, live>>

Next ==
    \/ MmInit
    \/ \E size \in MallocSizes : Malloc(size)
    \/ \E ptr \in live : Free(ptr)
    \/ FreeNull
    \/ \E ptr \in live, size \in ReallocSizes : Realloc(ptr, size)
    \/ \E ptr \in live : Realloc(ptr, Sub(GET_SIZE(mem, HDRP(ptr), [junk |-> 0]), DWORD))
    \/ \E ptr \in live : ReallocZero(ptr)
    \/ \E size \in {40} : ReallocNull(size)
    \/ \E ptr \in live : UserWrite(ptr)

Spec == Init /\ [][Next]_vars

\* Use after free: mm_realloc on the pointer that the last call freed.  The
\* caller is outside the contract from here on; the run ends.
ReallocFreed(size) ==
    /\ Ready
    /\ op.name = "free"
    /\ op.ptr # NULL
    /\ \E u \in Reads, s0 \in {State} :
         \E r \in {mm_realloc(s0, op.ptr, size, u)} :
            /\ Becomes(r.s)
            /\ ret' = r.ret
    /\ phase' = "misused"
    /\ calls' = calls + 1
    /\ op' = Call("realloc", op.ptr, size)
    /\ UNCHANGED <<mem_max_addr, heap_prologue, live>>

\* Double free: mm_free on the pointer that the last call freed.
FreeAgain ==
    /\ Ready
    /\ op.name = "free"
    /\ op.ptr # NULL
    /\ \E u \in Reads, s0 \in {State} : \E s \in {mm_free(s0, op.ptr, u)} : Becomes(s)
    /\ phase' = "misused"
    /\ calls' = calls + 1
    /\ op' = Call("free", op.ptr, 0)
    /\ ret' = NULL
    /\ UNCHANGED <<mem_max_addr, heap_prologue, live>>

NextMisuse ==
    \/ Next
    \/ \E size \in {DWORD, 100} : ReallocFreed(size)
    \/ FreeAgain

SpecMisuse == Init /\ [][NextMisuse]_vars

\* ---- the heap as a consistency checker would walk it ----
\* (mm_checkheap, mm.c:306, is a stub; these read the words the way the macros do)
Written(a) == a \in DOMAIN mem
Hdr(bp) == IF Written(HDRP(bp)) THEN mem[HDRP(bp)] ELSE 0
size_of(bp) == SizeBits(Hdr(bp))
is_allocated(bp) == AllocBit(Hdr(bp))
FooterAddr(bp) == Sub(Add(bp, size_of(bp)), DWORD)
EndOf(bp) == Add(bp, size_of(bp))

\* the block pointers of the physical chain from bp on, up to the first header
\* of size 0 (or an unwritten one)
RECURSIVE ChainFrom(_, _)
ChainFrom(bp, n) ==
    IF n = 0 \/ size_of(bp) = 0 THEN <<>>
    ELSE <<bp>> \o ChainFrom(EndOf(bp), n - 1)

\* the nodes of the free list from bp on, up to the first allocated block
RECURSIVE FlistFrom(_, _)
FlistFrom(bp, n) ==
    IF n = 0 \/ ~Written(HDRP(bp)) \/ is_allocated(bp) = 1 \/ ~Written(Add(bp, WORD))
    THEN <<>>
    ELSE <<bp>> \o FlistFrom(mem[Add(bp, WORD)], n - 1)

Elems(seq) == {seq[i] : i \in 1..Len(seq)}

\* A view of the heap: the chain, where it ends, its blocks and its free
\* blocks, the free list and the block at which the list ends.
Heap ==
    LET H(chain, flist) ==
            [chain |-> chain,
             end |-> IF chain = <<>> THEN heap_prologue ELSE EndOf(chain[Len(chain)]),
             blocks |-> Elems(chain),
             free |-> {b \in Elems(chain) : is_allocated(b) = 0},
             flist |-> flist,
             nodes |-> Elems(flist),
             flistEnd |-> IF flist = <<>> THEN flist_head
                          ELSE mem[Add(flist[Len(flist)], WORD)]]
    IN H(ChainFrom(heap_prologue, Cardinality(DOMAIN mem)),
         FlistFrom(flist_head, Cardinality(DOMAIN mem)))

\* the free blocks of the view h that contain address a
FreeBlockAt(h, a) == {b \in h.free : b <= a /\ a < EndOf(b)}

\* the heap exists: mm_init has succeeded
Initialised == phase \in {"ready", "misused"}

\* ---- C1 ----
\* C1: after mm_init and after every sequence of mm_malloc, mm_free and
\* mm_realloc calls on valid arguments, the free list reachable from flist_head
\* ends at the prologue and holds exactly the free blocks of the physical
\* chain, each exactly once.
C1_FreeListIsFreeBlocks ==
    Initialised =>
        \A h \in {Heap} :
            /\ h.flistEnd = heap_prologue
            /\ Cardinality(h.nodes) = Len(h.flist)
            /\ h.nodes = h.free

\* a free has left two separate free blocks in the list next to allocated ones
C1_Witness ==
    /\ op.name = "free"
    /\ op.ptr # NULL
    /\ fault = "none"
    /\ Len(Heap.flist) >= 2
    /\ live # {}

\* ---- C2 ----
\* C2: between public operations no two physically adjacent blocks are both
\* free.
C2_NoAdjacentFree ==
    Initialised =>
        \A h \in {Heap} :
            \A i \in 1..(Len(h.chain) - 1) :
                ~(is_allocated(h.chain[i]) = 0 /\ is_allocated(h.chain[i + 1]) = 0)

\* mm_free of a block whose two neighbours were free: the free block that
\* holds the pointer starts below it and ends above the block's old end
C2_Witness ==
    /\ op.name = "free"
    /\ op.ptr # NULL
    /\ fault = "none"
    /\ \E b \in FreeBlockAt(Heap, op.ptr) :
          /\ b < op.ptr
          /\ EndOf(b) > EndOf(op.ptr)

\* ---- C3 ----
\* C3: between public operations the header word of every block of the chain
\* (prologue, allocated and free blocks) equals the footer word at
\* bp + size - 16.
C3_HeaderEqualsFooter ==
    Initialised =>
        \A b \in Heap.blocks :
            /\ Written(HDRP(b))
            /\ Written(FooterAddr(b))
            /\ mem[HDRP(b)] = mem[FooterAddr(b)]

\* mm_realloc has grown a block in place and split off a free residue
C3_Witness ==
    /\ op.name = "realloc"
    /\ op.ptr # NULL
    /\ ret = op.ptr
    /\ phase = "ready"
    /\ size_of(ret) > MIN_BLOCK_SIZE
    /\ EndOf(ret) \in Heap.free
    /\ Cardinality(live) = 2

\* ---- C4 ----
\* C4: walking the physical chain from the prologue by adding each block's
\* header size lands exactly on the epilogue header, the last 8 bytes of the
\* region: the pad, the blocks and the epilogue add up to the heap size.
C4_ChainReachesEpilogue ==
    Initialised =>
        \A h \in {Heap} :
            /\ Len(h.chain) >= 1
            /\ h.chain[1] = heap_prologue
            /\ HDRP(h.end) = mem_brk - WORD
            /\ Written(HDRP(h.end))
            /\ mem[HDRP(h.end)] = PACK(0, 1)

\* the heap was extended twice and holds several blocks
C4_Witness ==
    /\ phase = "ready"
    /\ mem_brk > mem_start_brk + 3 * DWORD + CHUNKSIZE
    /\ Len(Heap.chain) >= 4

\* ---- C5 ----
\* the words the allocator keeps for itself in the view h: the pad, every
\* header and footer, the link words of the free blocks and of the prologue,
\* the epilogue header
Metadata(h) ==
    {mem_start_brk, HDRP(h.end), heap_prologue, Add(heap_prologue, WORD)}
    \cup {HDRP(b) : b \in h.blocks} \cup {FooterAddr(b) : b \in h.blocks}
    \cup h.free \cup {Add(b, WORD) : b \in h.free}

C6_ReturnedPointerAlignedInside ==
    (op.name \in {"malloc", "realloc"} /\ ret # NULL) =>
        /\ ret % DWORD = 0
        /\ heap_prologue < ret
        /\ ret < mem_brk - WORD

\* mm_malloc has returned a block carved out of the middle of the heap
C6_Witness ==
    /\ op.name = "malloc"
    /\ ret # NULL
    /\ ret > mem_start_brk + 3 * DWORD
    /\ ret % DWORD = 0
    /\ Cardinality(live) = 2

\* ---- C7 ----
\* C7: for every nonzero size of the machine word, sizes within 16 of the
\* maximum included, mm_malloc(size) returns null or a block whose usable
\* payload size_of(p) - 16 is at least size.
C7_MallocPayloadAtLeastSize ==
    (op.name = "malloc" /\ ret # NULL) => size_of(ret) - DWORD >= op.size

\* ---- C8 ----
\* the allocator state after the step
After == [mem |-> mem', head |-> flist_head', brk |-> mem_brk', fault |-> fault']
\* the step is the public call named name
Called(name) == calls' = calls + 1 /\ op'.name = name

\* C8: mm_free(null) is a no-op: it returns without touching a heap word and
\* leaves the heap, the free list and flist_head unchanged.
C8_FreeNullIsNoOp ==
    [][(Called("free") /\ op'.ptr = NULL) => After = State]_vars

\* ---- C9 ----
\* C9: for every live allocation p, mm_realloc(p, 0) returns null and leaves
\* the allocator in the state that mm_free(p) would leave: the alloc bit of p
\* cleared, the block coalesced and in the free list.
C9_ReallocZeroIsFree ==
    [][(Called("realloc") /\ op'.ptr \in live /\ op'.size = 0) =>
          /\ ret' = NULL
          /\ \E u \in Reads : After = mm_free(State, op'.ptr, u)]_vars

\* ---- C10 ----
\* C10: mm_realloc(p, m) with m > 0 rejects a pointer p whose block has alloc
\* bit 0: it returns null and leaves every header, footer, free-list link and
\* flist_head unchanged.
C10_ReallocRejectsFreeBlock ==
    [][(Called("realloc") /\ op'.ptr # NULL /\ op'.size > 0
        /\ is_allocated(op'.ptr) = 0) =>
          /\ ret' = NULL
          /\ After = State]_vars

\* ---- C11 ----
\* C11: mm_free(p) called a second time directly after mm_free(p) changes no
\* heap word, no free-list link and not flist_head, whether or not the first
\* call merged p with a free neighbour.
C11_DoubleFreeIsNoOp ==
    [][(Called("free") /\ op.name = "free" /\ op.ptr # NULL /\ op'.ptr = op.ptr) =>
          After = State]_vars

\* the second mm_free has returned; the first one had merged the block with
\* the free block before it
C11_Witness ==
    /\ phase = "misused"
    /\ op.name = "free"
    /\ fault = "none"
    /\ \E b \in FreeBlockAt(Heap, op.ptr) : b < op.ptr

\* ---- C12 ----
\* the addresses of the payload words of block p: [p, p + size_of(p) - 16)
PayloadWords(p) == {Add(p, WORD * i) : i \in 0..((size_of(p) - DWORD) \div WORD - 1)}
Min(x, y) == IF x < y THEN x ELSE y

\* C12: when mm_realloc(p, m), m > 0, returns a non-null q for a live p, the
\* first min(size_of(p) - 16, m) payload bytes at q are the bytes that were at
\* p before the call (bytes never written have no value to preserve).
C12_ReallocPreservesPayload ==
    [][(Called("realloc") /\ op'.ptr \in live /\ op'.size > 0 /\ ret' # NULL
        /\ fault' = "none") =>
          \A a \in PayloadWords(op'.ptr) :
              (a - op'.ptr < Min(size_of(op'.ptr) - DWORD, op'.size) /\ a \in DOMAIN mem) =>
                  /\ Add(ret', a - op'.ptr) \in DOMAIN mem'
                  /\ mem'[Add(ret', a - op'.ptr)] = mem[a]]_vars

\* mm_realloc has moved a block whose payload the caller had written
C12_Witness ==
    /\ op.name = "realloc"
    /\ op.ptr # NULL
    /\ ret \notin {NULL, op.ptr}
    /\ fault = "none"
    /\ Written(ret) /\ mem[ret] = UserWord
    /\ Written(Add(ret, WORD)) /\ mem[Add(ret, WORD)] = UserWord

\* ---- C13 ----
\* C13: mm_malloc, mm_free and mm_realloc leave the payload words of every
\* live allocation other than their argument as they were.
C13_OtherPayloadsUntouched ==
    [][(calls' = calls + 1 /\ op'.name \in {"malloc", "free", "realloc"}) =>
          \A q \in live \ {op'.ptr} : \A a \in PayloadWords(q) :
              /\ (a \in DOMAIN mem) = (a \in DOMAIN mem')
              /\ a \in DOMAIN mem => mem'[a] = mem[a]]_vars

\* a call has split a free block that lies directly below a live allocation
\* whose payload the caller had written
C13_Witness ==
    /\ op.name = "malloc"
    /\ ret # NULL
    /\ fault = "none"
    /\ \E q \in live \ {ret} :
          /\ ret < q
          /\ Written(q) /\ mem[q] = UserWord
          /\ \E b \in Heap.free : ret < b /\ EndOf(b) = q

\* ---- C14 ----
\* C14: when the provider refuses growth, mm_malloc returns null and leaves
\* every heap word, flist_head and the heap size as they were.
C14_MallocFailureChangesNothing ==
    [][(Called("malloc") /\ op'.size > 0 /\ ret' = NULL) => After = State]_vars

\* mm_malloc has failed on a heap that holds live allocations and a free
\* block too small for the request
C14_Witness ==
    /\ op.name = "malloc"
    /\ op.size > 0
    /\ ret = NULL
    /\ fault = "none"
    /\ live # {}
    /\ Heap.free # {}

\* ---- C15 ----
\* C15: when mm_realloc(p, m) returns null for a live p (the relocation's
\* mm_malloc failed), the block at p is as before: allocated, same size, same
\* payload, not in the free list; no heap word has changed.
C15_ReallocFailureKeepsBlock ==
    [][(Called("realloc") /\ op'.ptr \in live /\ op'.size > 0 /\ ret' = NULL) =>
          /\ After = State
          /\ is_allocated(op'.ptr) = 1
          /\ op'.ptr \notin Heap.nodes]_vars

\* mm_realloc has failed on a block whose payload the caller had written
C15_Witness ==
    /\ op.name = "realloc"
    /\ op.ptr \in live
    /\ op.size > 0
    /\ ret = NULL
    /\ fault = "none"
    /\ Written(op.ptr) /\ mem[op.ptr] = UserWord

\* ---- C16 ----
\* the allocated blocks of the physical chain of memory m from bp on, each
\* with its size
RECURSIVE AllocatedFrom(_, _, _)
AllocatedFrom(m, bp, n) ==
    IF n = 0 \/ GET_SIZE(m, HDRP(bp), [junk |-> 0]) = 0 THEN {}
    ELSE (IF GET_ALLOC(m, HDRP(bp), [junk |-> 0]) = 1
          THEN {<<bp, GET_SIZE(m, HDRP(bp), [junk |-> 0])>>}
          ELSE {})
         \cup AllocatedFrom(m, NEXT_BLKP(m, bp, [junk |-> 0]), n - 1)

Allocated(s) == AllocatedFrom(s.mem, heap_prologue, Cardinality(DOMAIN s.mem))

\* C16: when mm_malloc(n) has returned p, mm_free(p) called directly after it
\* leaves the set of allocated blocks (pointer and size) that there was before
\* the mm_malloc; the heap size and the free blocks may differ.
C16_FreeOfMallocRestoresLiveSet ==
    [][(Called("malloc") /\ ret' # NULL /\ fault' = "none") =>
          \A u \in Reads : \A s \in {mm_free(After, ret', u)} :
              /\ s.fault = "none"
              /\ Allocated(s) = Allocated(State)]_vars

\* mm_malloc has grown the heap to return a block, next to another live
\* allocation: freeing it gives a layout that differs from the one before
C16_Witness ==
    /\ op.name = "malloc"
    /\ ret # NULL
    /\ fault = "none"
    /\ live \ {ret} # {}
    /\ EndOf(ret) = mem_brk
    /\ mem_brk > mem_start_brk + 3 * DWORD + CHUNKSIZE

\* ---- C17 ----
\* mm_malloc's adjusted size (mm.c:192)
adj_size(size) == MAX(MIN_BLOCK_SIZE, ALIGN(Add(size, DWORD)))

\* C17: mm_malloc(n) called directly after mm_free(p), for n that fits the
\* block p had (its adjusted size is at most the size of the free block that
\* now holds p), returns the start of that free block: p itself, or the start
\* of the free region p was merged into; the heap size stays as it was.
C17_MallocAfterFreeReusesBlock ==
    [][(Called("malloc") /\ op.name = "free" /\ op.ptr # NULL /\ op'.size > 0
        /\ \E b \in FreeBlockAt(Heap, op.ptr) : adj_size(op'.size) <= size_of(b)) =>
          /\ ret' \in FreeBlockAt(Heap, op.ptr)
          /\ mem_brk' = mem_brk]_vars

\* mm_free has merged p into the free block before it, and the caller can
\* go on with mm_malloc
C17_Witness ==
    /\ op.name = "free"
    /\ op.ptr # NULL
    /\ Ready
    /\ Cardinality(live) < MaxLive
    /\ \E b \in FreeBlockAt(Heap, op.ptr) : b < op.ptr /\ size_of(b) >= 2 * MIN_BLOCK_SIZE

\* ---- C18 ----
\* C18: for every live allocation p, mm_realloc(p, size_of(p) - 16) returns p
\* and changes no heap word, not the free list and not the heap size.
C18_ReallocSameSizeIsIdentity ==
    [][(Called("realloc") /\ op'.ptr \in live /\ op'.size > 0
        /\ op'.size = size_of(op'.ptr) - DWORD) =>
          /\ ret' = op'.ptr
          /\ After = State]_vars

\* mm_realloc was called with the payload size of a block larger than the
\* minimum, next to a free block it could have grown into
C18_Witness ==
    /\ op.name = "realloc"
    /\ op.ptr \in live
    /\ ret = op.ptr
    /\ fault = "none"
    /\ op.size = size_of(op.ptr) - DWORD
    /\ size_of(op.ptr) > MIN_BLOCK_SIZE
    /\ EndOf(op.ptr) \in Heap.free

\* ---- C19 ----
\* C19: mm_init asks the provider for 48 bytes.  Refused, it returns -1 and
\* stores nothing.  Otherwise it returns 0 and the heap is 48 bytes: the pad
\* word 0, the prologue at base + 16 with header and footer (32, allocated)
\* and both links null, the epilogue header (0, allocated) at base + 40;
\* flist_head is the prologue.
C19_InitBuildsSkeleton ==
    op.name = "init" =>
        IF mem_max_addr < mem_start_brk + 3 * DWORD
        THEN /\ ret = -1
             /\ mem = <<>>
             /\ mem_brk = mem_start_brk
             /\ flist_head = NULL
        ELSE /\ ret = 0
             /\ mem_brk = mem_start_brk + 3 * DWORD
             /\ heap_prologue = mem_start_brk + DWORD
             /\ flist_head = heap_prologue
             /\ mem = [a \in {mem_start_brk + WORD * i : i \in 0..5} |->
                          CASE a = mem_start_brk -> 0
                            [] a = mem_start_brk + WORD -> PACK(MIN_BLOCK_SIZE, 1)
                            [] a = mem_start_brk + 2 * WORD -> NULL
                            [] a = mem_start_brk + 3 * WORD -> NULL
                            [] a = mem_start_brk + 4 * WORD -> PACK(MIN_BLOCK_SIZE, 1)
                            [] OTHER -> PACK(0, 1)]

\* mm_init has succeeded
C19_Witness ==
    /\ op.name = "init"
    /\ ret = 0
    /\ phase = "ready"
    /\ Heap.chain = <<heap_prologue>>

\* ---- C20 ----
\* C20: after every public operation, when the free list is not empty, the
\* prev link of the block at flist_head is null.
C20_HeadPrevIsNull ==
    (Initialised /\ fault = "none" /\ flist_head # heap_prologue) =>
        /\ Written(flist_head)
        /\ mem[flist_head] = NULL

\* ---- C21 ----
\* C21: after every public operation the free list is doubly linked: every
\* node other than the head is the next of its prev, and every node is the
\* prev of its next, the prologue's prev link included for the last node.
C21_FreeListDoublyLinked ==
    Initialised =>
        \A b \in Heap.nodes :
            /\ b # flist_head =>
                  /\ Written(b)
                  /\ Written(Add(mem[b], WORD))
                  /\ mem[Add(mem[b], WORD)] = b
            /\ Written(Add(b, WORD))
            /\ Written(mem[Add(b, WORD)])
            /\ mem[mem[Add(b, WORD)]] = b

\* mm_malloc has taken the second node out of a list of two and put the
\* residue of the split in front of the node that stayed
C21_Witness ==
    /\ op.name = "malloc"
    /\ ret # NULL
    /\ fault = "none"
    /\ Len(Heap.flist) = 2
    /\ Heap.flist[1] = EndOf(ret)
    /\ Heap.flist[2] < ret
    /\ mem[heap_prologue] = Heap.flist[2]

\* ---- C22 ----
\* the nodes of the free list of memory m from bp on, up to the first
\* allocated block
RECURSIVE FlistOf(_, _, _)
FlistOf(m, bp, n) ==
    IF n = 0 \/ HDRP(bp) \notin DOMAIN m \/ AllocBit(m[HDRP(bp)]) = 1
       \/ Add(bp, WORD) \notin DOMAIN m
    THEN <<>>
    ELSE Bind(m[Add(bp, WORD)], LAMBDA next : <<bp>> \o FlistOf(m, next, n - 1))

\* the free list of the allocator state s
Flist(s) == FlistOf(s.mem, s.head, Cardinality(DOMAIN s.mem))

\* C22 as stated: mm_realloc(p, m) with adj_size <= size_of(p) and
\* size_of(p) - adj_size >= 32 splits the block: p is returned, allocated with
\* size adj_size, and the rest is a free block in the free list.
C22_ReallocShrinkSplits ==
    [][(Called("realloc") /\ op'.ptr \in live /\ op'.size > 0
        /\ adj_size(op'.size) <= size_of(op'.ptr)
        /\ size_of(op'.ptr) - adj_size(op'.size) >= MIN_BLOCK_SIZE) =>
          /\ ret' = op'.ptr
          /\ GET(mem', HDRP(op'.ptr), [junk |-> 0]) = PACK(adj_size(op'.size), 1)
          /\ GET_ALLOC(mem', HDRP(Add(op'.ptr, adj_size(op'.size))), [junk |-> 1]) = 0
          /\ Add(op'.ptr, adj_size(op'.size)) \in Elems(Flist(After))]_vars

\* C22 as the code has it: mm_realloc(p, m) with adj_size <= size_of(p)
\* returns p and changes nothing, also when size_of(p) - adj_size >= 32: the
\* block keeps its size and no residue is split off.
C22_ReallocShrinkKeepsBlock ==
    [][(Called("realloc") /\ op'.ptr \in live /\ op'.size > 0
        /\ adj_size(op'.size) <= size_of(op'.ptr)
        /\ size_of(op'.ptr) - adj_size(op'.size) >= MIN_BLOCK_SIZE) =>
          /\ ret' = op'.ptr
          /\ After = State]_vars

\* mm_realloc has returned a block that is larger than the adjusted size by
\* a whole block or more
C22_Witness ==
    /\ op.name = "realloc"
    /\ op.ptr \in live
    /\ op.size > 0
    /\ ret = op.ptr
    /\ fault = "none"
    /\ size_of(ret) - adj_size(op.size) >= MIN_BLOCK_SIZE

\* ---- C23 ----
\* C23: mm_malloc is first fit in list order.  When some node of the free
\* list has size >= adj_size, the block returned is the first such node from
\* flist_head on and the heap does not grow; the search comes back empty
\* (mm_malloc grows the heap or returns null) only when no node fits.
C23_MallocIsFirstFit ==
    [][(Called("malloc") /\ op'.size > 0) =>
          \A h \in {Heap} :
              IF \E i \in 1..Len(h.flist) : size_of(h.flist[i]) >= adj_size(op'.size)
              THEN /\ \E i \in 1..Len(h.flist) :
                        /\ size_of(h.flist[i]) >= adj_size(op'.size)
                        /\ \A j \in 1..(i - 1) : size_of(h.flist[j]) < adj_size(op'.size)
                        /\ ret' = h.flist[i]
                   /\ mem_brk' = mem_brk
              ELSE ret' = NULL \/ mem_brk' > mem_brk]_vars

\* mm_malloc has passed over a free block too small for the request, which
\* is still in the list, and has taken its block from the free tail of the
\* one chunk the heap has
C23_Witness ==
    /\ op.name = "malloc"
    /\ ret # NULL
    /\ fault = "none"
    /\ mem_brk = mem_start_brk + 3 * DWORD + CHUNKSIZE
    /\ \E b \in Heap.nodes :
          /\ b < ret
          /\ size_of(b) < adj_size(op.size)
          /\ b # flist_head

PlacedInto ==
    (IF ret' \in Heap.free THEN size_of(ret') ELSE 0) + (mem_brk' - mem_brk)

\* C25: placement splits exactly when the leftover is a legal block.  When
\* mm_malloc places adj_size bytes into a free block of size B and
\* B - adj_size >= 32, the block returned has size adj_size and a free block
\* of size B - adj_size, in the free list, starts right after it; otherwise
\* the block returned has size B, the block after it is as it was and the
\* free list has lost the block and gained none.
C25_SplitIffLeftoverIsBlock ==
    [][(Called("malloc") /\ ret' # NULL /\ fault' = "none") =>
          \A B \in {PlacedInto} : \A adj \in {adj_size(op'.size)} :
          \A new \in {Elems(Flist(After))} :
              IF B - adj >= MIN_BLOCK_SIZE
              THEN /\ GET(mem', HDRP(ret'), [junk |-> 0]) = PACK(adj, 1)
                   /\ GET(mem', Sub(Add(ret', adj), DWORD), [junk |-> 0]) = PACK(adj, 1)
                   /\ GET(mem', HDRP(Add(ret', adj)), [junk |-> 1]) = PACK(B - adj, 0)
                   /\ GET(mem', Sub(Add(ret', B), DWORD), [junk |-> 1]) = PACK(B - adj, 0)
                   /\ Add(ret', adj) \in new
              ELSE /\ GET(mem', HDRP(ret'), [junk |-> 0]) = PACK(B, 1)
                   /\ GET(mem', Sub(Add(ret', B), DWORD), [junk |-> 0]) = PACK(B, 1)
                   /\ GET_ALLOC(mem', HDRP(Add(ret', B)), [junk |-> 0]) = 1
                   /\ new = Elems(Flist(State)) \ {ret'}]_vars

\* mm_malloc has returned a whole free block that was 16 bytes larger than
\* the adjusted size: too little for a block, so no split
C25_Witness ==
    /\ op.name = "malloc"
    /\ ret # NULL
    /\ fault = "none"
    /\ size_of(ret) = adj_size(op.size) + DWORD
    /\ is_allocated(EndOf(ret)) = 1

\* ---- C26 ----
\* C26: mm_realloc grows in place whenever it can.  When adj_size is more
\* than size_of(p), the next physical block n is free and
\* size_of(p) + size_of(n) >= adj_size, mm_realloc returns p, the heap does
\* not grow, n is no longer in the free list, and p is allocated with size
\* adj_size, followed by a free residue in the list, when the surplus is
\* >= 32, or with the whole combined size otherwise.
C26_ReallocGrowsInPlace ==
    [][(Called("realloc") /\ op'.ptr \in live /\ op'.size > 0
        /\ adj_size(op'.size) > size_of(op'.ptr)
        /\ EndOf(op'.ptr) \in Heap.free
        /\ size_of(op'.ptr) + size_of(EndOf(op'.ptr)) >= adj_size(op'.size)) =>
          \A p \in {op'.ptr} : \A adj \in {adj_size(op'.size)} :
          \A sum \in {size_of(op'.ptr) + size_of(EndOf(op'.ptr))} :
          \A new \in {Elems(Flist(After))} :
              /\ ret' = p
              /\ fault' = "none"
              /\ mem_brk' = mem_brk
              /\ EndOf(p) \notin new
              /\ IF sum - adj >= MIN_BLOCK_SIZE
                 THEN /\ GET(mem', HDRP(p), [junk |-> 0]) = PACK(adj, 1)
                      /\ GET(mem', Sub(Add(p, adj), DWORD), [junk |-> 0]) = PACK(adj, 1)
                      /\ GET(mem', HDRP(Add(p, adj)), [junk |-> 1]) = PACK(sum - adj, 0)
                      /\ GET(mem', Sub(Add(p, sum), DWORD), [junk |-> 1]) = PACK(sum - adj, 0)
                      /\ Add(p, adj) \in new
                 ELSE /\ GET(mem', HDRP(p), [junk |-> 0]) = PACK(sum, 1)
                      /\ GET(mem', Sub(Add(p, sum), DWORD), [junk |-> 0]) = PACK(sum, 1)]_vars

\* the third call, after mm_init and one mm_malloc of a small block:
\* mm_realloc(p, 100) has grown the block to 128 bytes where it was, into the
\* free block behind it
C26_Witness ==
    /\ calls = 3
    /\ op.name = "realloc"
    /\ op.ptr \in live
    /\ op.size = 100
    /\ ret = op.ptr
    /\ fault = "none"
    /\ size_of(ret) = adj_size(op.size)
    /\ EndOf(ret) \in Heap.free

\* ---- C27 ----
\* C27: after mm_free(p) on a live allocation the free block that contains p
\* has the size of p plus the sizes of the physical neighbours that were free
\* before the call; its block pointer is the previous neighbour's when that
\* one was free, p otherwise; it is in the free list, and the neighbours that
\* were merged are no longer nodes of their own.
C27_FreeMergesFreeNeighbours ==
    [][(Called("free") /\ op'.ptr \in live) =>
          \A p \in {op'.ptr} : \A h \in {Heap} :
          \A prev \in {{b \in h.free : EndOf(b) = p}} :
          \A next \in {{b \in h.free : b = EndOf(p)}} :
          \A bp \in (IF prev # {} THEN prev ELSE {p}) :
          \A size \in {size_of(p) + (IF prev # {} THEN size_of(bp) ELSE 0)
                                  + (IF next # {} THEN size_of(EndOf(p)) ELSE 0)} :
          \A new \in {Elems(Flist(After))} :
              /\ GET(mem', HDRP(bp), [junk |-> 1]) = PACK(size, 0)
              /\ GET(mem', Sub(Add(bp, size), DWORD), [junk |-> 1]) = PACK(size, 0)
              /\ bp \in new
              /\ new \cap ((prev \cup next \cup {p}) \ {bp}) = {}]_vars

\* mm_free has merged p with the free block before it and with nothing
\* else: the block after p is allocated
C27_Witness ==
    /\ op.name = "free"
    /\ op.ptr # NULL
    /\ fault = "none"
    /\ \E b \in FreeBlockAt(Heap, op.ptr) :
          /\ b < op.ptr
          /\ EndOf(b) = Add(op.ptr, size_of(op.ptr))
          /\ EndOf(b) \in live

\* ---- C28 ----
\* C28: the heap grows only on an allocation miss and never shrinks.  The
\* break never moves down; mm_free leaves it where it is; when mm_malloc moves
\* it, no free block had size >= adj_size and it moves by max(adj_size, 4096),
\* the one request of the call.
C28_HeapGrowsOnlyOnMiss ==
    [][/\ mem_brk' >= mem_brk
       /\ Called("free") => mem_brk' = mem_brk
       /\ (Called("malloc") /\ mem_brk' # mem_brk) =>
             /\ op'.size > 0
             /\ \A b \in Heap.free : size_of(b) < adj_size(op'.size)
             /\ mem_brk' - mem_brk = MAX(adj_size(op'.size), CHUNKSIZE)]_vars

\* mm_malloc of more than a chunk has missed in a heap of one chunk that had
\* a free block: the heap has grown by the adjusted size
C28_Witness ==
    /\ op.name = "malloc"
    /\ op.size > CHUNKSIZE
    /\ ret # NULL
    /\ fault = "none"
    /\ mem_brk = mem_start_brk + 3 * DWORD + CHUNKSIZE + adj_size(op.size)
    /\ ret < mem_start_brk + 3 * DWORD + CHUNKSIZE

\* ---- C29 ----
\* the sizes mm_malloc passes to extend_heap (mm.c:197-198)
GrowSizes == {MAX(CHUNKSIZE, adj_size(size)) : size \in MallocSizes \ {0}}

\* C29: the sentinels survive every operation.  In every state after mm_init
\* the prologue's header and footer hold (32, allocated) and the last word of
\* the region holds the epilogue header (0, allocated).  extend_heap, called
\* in such a state, makes the old epilogue word the header (size, free) of the
\* new region, writes the epilogue into the last word of the grown region and
\* returns a free block that ends there.
C29_SentinelsSurvive ==
    Initialised =>
        /\ Written(HDRP(heap_prologue))
        /\ mem[HDRP(heap_prologue)] = PACK(MIN_BLOCK_SIZE, 1)
        /\ Written(Add(heap_prologue, MIN_BLOCK_SIZE - DWORD))
        /\ mem[Add(heap_prologue, MIN_BLOCK_SIZE - DWORD)] = PACK(MIN_BLOCK_SIZE, 1)
        /\ Written(mem_brk - WORD)
        /\ mem[mem_brk - WORD] = PACK(0, 1)
        /\ fault = "none" =>
              \A u \in Reads, size \in GrowSizes : \A e \in {extend_heap(State, size, u)} :
                  e.bp # NULL =>
                      /\ e.s.fault = "none"
                      /\ e.s.brk = mem_brk + size
                      /\ GET(e.s.mem, mem_brk - WORD, u) = PACK(size, 0)
                      /\ GET(e.s.mem, e.s.brk - WORD, u) = PACK(0, 1)
                      /\ e.bp <= mem_brk
                      /\ GET(e.s.mem, HDRP(e.bp), u) = PACK(e.s.brk - e.bp, 0)

\* the heap was extended a second time behind an allocated block: the word
\* that was the epilogue header is the header of the block mm_malloc returned
C29_Witness ==
    /\ op.name = "malloc"
    /\ ret = mem_start_brk + 3 * DWORD + CHUNKSIZE
    /\ fault = "none"
    /\ mem_brk = ret + CHUNKSIZE
    /\ mem[HDRP(ret)] = PACK(adj_size(op.size), 1)
    /\ mem[mem_brk - WORD] = PACK(0, 1)

\* ---- C30 ----
\* C30: in every state after mm_init the blocks of the chain fill the heap up
\* to the epilogue, and the header and the footer of every block other than
\* the prologue hold a size that is a multiple of 16 and at least 32, with
\* bits 1 to 3 zero: no split and no extension leaves a smaller block.
C30_BlockSizesLegal ==
    Initialised =>
        /\ HDRP(Heap.end) = mem_brk - WORD
        /\ \A b \in Heap.blocks \ {heap_prologue} :
              \A a \in {HDRP(b), FooterAddr(b)} :
                  /\ Written(a)
                  /\ mem[a] % DWORD \in {0, 1}
                  /\ SizeBits(mem[a]) % DWORD = 0
                  /\ SizeBits(mem[a]) >= MIN_BLOCK_SIZE

\* a split has left a free residue of exactly the minimum block size behind
\* the block mm_malloc returned
C30_Witness ==
    /\ op.name = "malloc"
    /\ ret # NULL
    /\ fault = "none"
    /\ EndOf(ret) \in Heap.free
    /\ size_of(EndOf(ret)) = MIN_BLOCK_SIZE
    /\ mem[FooterAddr(EndOf(ret))] = PACK(MIN_BLOCK_SIZE, 0)

\* ---- C31 ----
\* C31: free-list operations are never applied to an allocated block.  Under
\* every sequence of calls with live pointers or null, no assertion
\* !GET_ALLOC(HDRP(bp)) of allocate, coalesce, flist_remove or flist_add
\* fails, and the insertions and removals balance: between calls every free
\* block of the chain is a node of the list exactly once and no allocated
\* block is a node.
C31_ListOpsOnlyOnFreeBlocks ==
    /\ fault # "assert"
    /\ (Initialised /\ fault = "none") =>
          \A h \in {Heap} :
              /\ \A b \in h.free : Cardinality({i \in 1..Len(h.flist) : h.flist[i] = b}) = 1
              /\ \A i \in 1..Len(h.flist) :
                    /\ h.flist[i] \in h.blocks
                    /\ is_allocated(h.flist[i]) = 0

\* mm_realloc has moved a block: allocate, coalesce, flist_remove and
\* flist_add have all run, on the new block, its residue and the old block
C31_Witness ==
    /\ op.name = "realloc"
    /\ op.ptr # NULL
    /\ op.size > 0
    /\ ret \notin {NULL, op.ptr}
    /\ fault = "none"
    /\ op.ptr <= flist_head
    /\ flist_head < EndOf(flist_head)
    /\ Len(Heap.flist) >= 2

\* ---- C32 ----
\* the sizes find_fit is called with: the adjusted sizes of the caller's
\* requests
FitSizes == {adj_size(size) : size \in (MallocSizes \cup ReallocSizes) \ {0}}

\* C32: the free-list search always terminates.  In every state after
\* mm_init the walk from flist_head over the next links visits only free
\* blocks, none twice, follows no null link and ends at the allocated
\* prologue; no call has run into an endless search, and find_fit, given as
\* many steps as there are free blocks, returns for every size.
C32_SearchTerminates ==
    /\ fault # "hang"
    /\ (Initialised /\ fault = "none") =>
          \A h \in {Heap} :
              /\ \A i \in 1..Len(h.flist) :
                    /\ h.flist[i] # NULL
                    /\ h.flist[i] \in h.free
                    /\ \A j \in 1..(i - 1) : h.flist[j] # h.flist[i]
              /\ h.flistEnd = heap_prologue
              /\ is_allocated(heap_prologue) = 1
              /\ \A u \in Reads, size \in FitSizes :
                    ~find_fit_from(State, flist_head, size, u, Cardinality(h.free)).hang

\* mm_malloc of more than a chunk has walked a list of two free blocks,
\* found neither large enough and extended the heap; the first of the two is
\* still in the list, behind the residue
C32_Witness ==
    /\ op.name = "malloc"
    /\ op.size > CHUNKSIZE
    /\ ret # NULL
    /\ fault = "none"
    /\ mem_brk = mem_start_brk + 3 * DWORD + CHUNKSIZE + adj_size(op.size)
    /\ Len(Heap.flist) = 2
    /\ Heap.flist[1] = EndOf(ret)
    /\ Heap.flist[2] < ret

====
